---- MODULE Spec2Model ----
(***************************************************************************)
(* Model of plugins/kaizen/skills/review/scripts/resolve_review_context.py *)
(*                                                                         *)
(* Strings are sequences of tokens.  A token is a run of characters that   *)
(* the program never looks inside: "/" is the path separator, a token that *)
(* starts with "." is a dot-led run (an extension such as ".md", or the    *)
(* head of a hidden name such as ".wip"), every other token is a run of    *)
(* ordinary characters.  No token is a prefix of another, so comparing     *)
(* token sequences by TokenOrder is comparing the strings by code point,   *)
(* and a contiguous run of tokens is a substring.                          *)
(***************************************************************************)
EXTENDS Integers, Sequences, FiniteSets, TLC

VARIABLES
    pc,       \* position of the run: "start", "done"
    fs,       \* filesystem snapshot: the regular files, as absolute segment tuples
    config,   \* what load_doc_advisor_config returned (NoConfig for None)
    targets,  \* what parse_args returned
    result,   \* the result dict main printed (NoResult before)
    fnPath,   \* argument of a direct call of detect_type_from_path
    fnDir,    \* argument of a direct call of detect_type_from_dir
    fnOut     \* value returned by the direct call

vars == <<pc, fs, config, targets, result, fnPath, fnDir, fnOut>>

\* ---- bounds -------------------------------------------------------------
MaxFiles == 3      \* files in a filesystem snapshot
MaxTargets == 2    \* targets on the command line
MaxDirs == 2       \* directories above the file in a path handed to detect_type_from_path

\* ---- Python values ------------------------------------------------------
None == "None"
NoConfig == [present |-> FALSE, has_specs |-> FALSE, root_dir |-> <<>>, target_dirs |-> <<>>]
NoResult == [status |-> "none"]
NoCall == [called |-> FALSE]

SEP == "/"

\* ---- strings as token sequences -----------------------------------------
\* tokens in code-point order ('-' < '.' < '/' < 'A'..'Z' < 'a'..'z')
TokenOrder ==
    << "-notes",
       ".PY", ".claude", ".md", ".py", ".txt", ".wip",
       "/",
       "CLAUDE", "README",
       "app", "commands", "design", "foo", "login", "memo", "plan",
       "requirements", "rules", "search", "skills", "specs", "w" >>

TokenRank(t) == CHOOSE i \in 1..Len(TokenOrder) : TokenOrder[i] = t

DotTokens == {".PY", ".claude", ".md", ".py", ".txt", ".wip"}

\* str.lower() on a token
Lower(t) ==
    CASE t = ".PY" -> ".py"
      [] t = "CLAUDE" -> "claude"
      [] t = "README" -> "readme"
      [] OTHER -> t

\* a < b for str
RECURSIVE StrLess(_, _)
StrLess(a, b) ==
    IF b = <<>> THEN FALSE
    ELSE IF a = <<>> THEN TRUE
    ELSE IF Head(a) = Head(b) THEN StrLess(Tail(a), Tail(b))
    ELSE TokenRank(Head(a)) < TokenRank(Head(b))

\* sorted(S) for a collection of distinct str
RECURSIVE Sorted(_)
Sorted(S) ==
    IF S = {} THEN <<>>
    ELSE LET m == CHOOSE x \in S : \A y \in S \ {x} : StrLess(x, y)
         IN <<m>> \o Sorted(S \ {m})

\* s.startswith(p)
StartsWith(s, p) == Len(s) >= Len(p) /\ SubSeq(s, 1, Len(p)) = p

\* p in s
Contains(s, p) ==
    \E i \in 1..(Len(s) - Len(p) + 1) : SubSeq(s, i, i + Len(p) - 1) = p

\* sep.join(list)
RECURSIVE Join(_, _)
Join(list, sep) ==
    IF list = <<>> THEN <<>>
    ELSE IF Len(list) = 1 THEN list[1]
    ELSE list[1] \o sep \o Join(Tail(list), sep)

\* the segments of a path string: the runs between separators
RECURSIVE Segments(_)
Segments(s) ==
    IF s = <<>> THEN <<>>
    ELSE IF Head(s) = SEP THEN Segments(Tail(s))
    ELSE LET n == IF \E i \in 1..Len(s) : s[i] = SEP
                  THEN (CHOOSE i \in 1..Len(s) :
                            s[i] = SEP /\ \A j \in 1..(i-1) : s[j] # SEP) - 1
                  ELSE Len(s)
         IN <<SubSeq(s, 1, n)>> \o Segments(SubSeq(s, n + 1, Len(s)))

IsAbsolute(s) == s # <<>> /\ s[1] = SEP

\* pathlib: Path(s).parts
Parts(s) == IF IsAbsolute(s) THEN <<(<<SEP>>)>> \o Segments(s) ELSE Segments(s)

\* pathlib: Path(s).name
Name(s) == LET g == Segments(s) IN IF g = <<>> THEN <<>> ELSE g[Len(g)]

\* x in tuple
InSeq(x, seq) == \E i \in 1..Len(seq) : seq[i] = x

\* str(Path) of an absolute segment tuple, and of a relative one
AbsStr(segs) == <<SEP>> \o Join(segs, <<SEP>>)
RelStr(segs) == Join(segs, <<SEP>>)

\* ---- the filesystem ------------------------------------------------------
\* find_project_root() is outside the model: the project root is /w
ProjectRoot == << <<"w">> >>

Prefixes(p) == {SubSeq(p, 1, n) : n \in 0..Len(p)}
ProperPrefixes(p) == {SubSeq(p, 1, n) : n \in 0..(Len(p) - 1)}

\* the directories of snapshot files: the ancestors of the files, and the root
Directories(files) ==
    Prefixes(ProjectRoot) \cup UNION {ProperPrefixes(f) : f \in files}

\* p / s   (pathlib: an absolute right operand replaces the left)
Slash(p, s) == IF IsAbsolute(s) THEN Segments(s) ELSE p \o Segments(s)

\* project_root / s
RootJoin(s) == Slash(ProjectRoot, s)

\* Path.is_file(), Path.is_dir()
IsFile(files, p) == p \in files
IsDir(files, p) == p \in Directories(files)

IsUnder(p, dir) == Len(p) > Len(dir) /\ SubSeq(p, 1, Len(dir)) = dir

\* a name that starts with "."
IsHidden(seg) == seg # <<>> /\ seg[1] \in DotTokens

\* fnmatch(name, "*" + ext): case-sensitive on posix
EndsWith(seg, ext) == seg # <<>> /\ seg[Len(seg)] = ext

\* glob.glob(str(dir / "**" / ("*" + ext)), recursive=True): "*" and "**" do
\* not match names that start with "."; returns str
Glob(files, dir, ext) ==
    {AbsStr(f) : f \in {g \in files :
        /\ IsUnder(g, dir)
        /\ EndsWith(g[Len(g)], ext)
        /\ \A i \in (Len(dir) + 1)..Len(g) : ~IsHidden(g[i])}}

\* Path(dir).rglob("*" + ext): pathlib matches names that start with "." too
RGlob(files, dir, ext) ==
    {g \in files : IsUnder(g, dir) /\ EndsWith(g[Len(g)], ext)}

\* str(Path(s).relative_to(project_root)) for s below the project root
RelativeToRoot(s) ==
    LET g == Segments(s) IN RelStr(SubSeq(g, Len(ProjectRoot) + 1, Len(g)))

\* ---- module constants ---------------------------------------------------
CODE_EXTENSIONS ==
    {".swift", ".kt", ".java", ".ts", ".tsx", ".js", ".jsx",
     ".py", ".go", ".rs", ".c", ".cpp", ".h", ".m", ".mm"}

GENERIC_PATH_PATTERNS ==
    << <<".claude", "/", "skills", "/">>,
       <<".claude", "/", "commands", "/">>,
       <<"rules", "/">> >>

GENERIC_ROOT_FILES == { <<"CLAUDE", ".md">>, <<"README", ".md">> }

TYPE_OPTIONS == <<"requirement", "design", "plan", "code", "generic">>

\* ---- configuration ------------------------------------------------------
\* s.rstrip("/")
RECURSIVE RStripSep(_)
RStripSep(s) ==
    IF s # <<>> /\ s[Len(s)] = SEP THEN RStripSep(SubSeq(s, 1, Len(s) - 1)) ELSE s

\* {**a, **b} for dicts kept as sequences of [type, dir] in insertion order
DictKeys(d) == {d[i].type : i \in 1..Len(d)}
DictGet(d, k) == d[CHOOSE i \in 1..Len(d) : d[i].type = k].dir
DictMerge(a, b) ==
    [i \in 1..Len(a) |->
        IF a[i].type \in DictKeys(b)
        THEN [type |-> a[i].type, dir |-> DictGet(b, a[i].type)]
        ELSE a[i]]
    \o SelectSeq(b, LAMBDA e : e.type \notin DictKeys(a))

get_specs_root(cfg) ==
    IF cfg.present /\ cfg.has_specs
    THEN RStripSep(cfg.root_dir)
    ELSE <<"specs">>

DefaultTargetDirs ==
    << [type |-> "requirement", dir |-> <<"requirements">>],
       [type |-> "design", dir |-> <<"design">>] >>

get_target_dirs(cfg) ==
    IF cfg.present /\ cfg.has_specs /\ cfg.target_dirs # <<>>
    THEN DictMerge(DefaultTargetDirs, cfg.target_dirs)
    ELSE DefaultTargetDirs

\* ---- FeatureCatalog -----------------------------------------------------
\* the entries of a directory: the names one level below it
Entries(files, dir) ==
    {SubSeq(p, 1, Len(dir) + 1) :
        p \in {q \in files \cup Directories(files) : IsUnder(q, dir)}}

detect_features(files, specs_root) ==
    LET specs_dir == RootJoin(specs_root)
    IN IF ~IsDir(files, specs_dir) THEN <<>>
       ELSE LET names == {e[Len(e)] : e \in {x \in Entries(files, specs_dir) :
                              IsDir(files, x) /\ ~IsHidden(x[Len(x)])}}
            IN Sorted(names)

\* variant of find_feature_subdirs that lists plan first instead of last
find_feature_subdirs_PlanFirst(files, specs_root, feature, target_dirs) ==
    LET feature_dir == Slash(RootJoin(specs_root), feature)
        HasDocs(dir_name) ==
            LET subdir == Slash(feature_dir, dir_name)
            IN IsDir(files, subdir) /\ RGlob(files, subdir, ".md") # {}
        configured == SelectSeq(target_dirs, LAMBDA e : HasDocs(e.dir))
    IN IF ~IsDir(files, feature_dir) THEN <<>>
       ELSE (IF HasDocs(<<"plan">>) THEN <<"plan">> ELSE <<>>)
            \o [i \in 1..Len(configured) |-> configured[i].type]

find_feature_subdirs(files, specs_root, feature, target_dirs) ==
    LET feature_dir == Slash(RootJoin(specs_root), feature)
        HasDocs(dir_name) ==
            LET subdir == Slash(feature_dir, dir_name)
            IN IsDir(files, subdir) /\ RGlob(files, subdir, ".md") # {}
        configured == SelectSeq(target_dirs, LAMBDA e : HasDocs(e.dir))
    IN IF ~IsDir(files, feature_dir) THEN <<>>
       ELSE [i \in 1..Len(configured) |-> configured[i].type]
            \o (IF HasDocs(<<"plan">>) THEN <<"plan">> ELSE <<>>)

find_target_files(files, specs_root, feature, review_type, target_dirs) ==
    LET type_to_dir == DictMerge(target_dirs, <<[type |-> "plan", dir |-> <<"plan">>]>>)
    IN IF review_type \notin DictKeys(type_to_dir) \/ DictGet(type_to_dir, review_type) = <<>>
       THEN <<>>
       ELSE LET dir == Slash(Slash(RootJoin(specs_root), feature),
                             DictGet(type_to_dir, review_type))
                found == Sorted(Glob(files, dir, ".md"))
            IN [i \in 1..Len(found) |-> RelativeToRoot(found[i])]

find_reference_docs(review_type) == <<>>

\* ---- PathClassifier -----------------------------------------------------
\* os.path.splitext(s)[1]: the last dot-led run of the last component, unless
\* the component starts with it
SplitExt(s) ==
    LET seps == {i \in 1..Len(s) : s[i] = SEP}
        start == IF seps = {} THEN 1 ELSE (CHOOSE i \in seps : \A j \in seps : j <= i) + 1
    IN IF Len(s) > start /\ s[Len(s)] \in DotTokens THEN s[Len(s)] ELSE ""

_detect_generic_type(path_str) ==
    IF \E i \in 1..Len(GENERIC_PATH_PATTERNS) :
          \/ StartsWith(path_str, GENERIC_PATH_PATTERNS[i])
          \/ Contains(path_str, <<SEP>> \o GENERIC_PATH_PATTERNS[i])
    THEN "generic"
    ELSE IF Name(path_str) \in GENERIC_ROOT_FILES /\ ~InSeq(SEP, RStripSep(path_str))
    THEN "generic"
    ELSE None

\* variant of detect_type_from_path that tries the directory rules before
\* the extension rule
detect_type_from_path_DirRuleFirst(path_str, cfg) ==
    LET specs_root == get_specs_root(cfg)
        target_dirs == get_target_dirs(cfg)
        hits == {i \in 1..Len(target_dirs) :
                    /\ \/ Contains(path_str, <<SEP>> \o target_dirs[i].dir \o <<SEP>>)
                       \/ StartsWith(path_str, specs_root \o <<SEP>>)
                    /\ InSeq(target_dirs[i].dir, Parts(path_str))}
    IN IF cfg.present /\ hits # {}
       THEN target_dirs[CHOOSE i \in hits : \A j \in hits : i <= j].type
       ELSE IF cfg.present /\ InSeq(<<"plan">>, Parts(path_str)) THEN "plan"
       ELSE IF Lower(SplitExt(path_str)) \in CODE_EXTENSIONS THEN "code"
       ELSE _detect_generic_type(path_str)

\* the guard of line 172 together with the exact check of line 175
DirRuleMatches(path_str, specs_root, dir_name) ==
    /\ \/ Contains(path_str, <<SEP>> \o dir_name \o <<SEP>>)
       \/ StartsWith(path_str, specs_root \o <<SEP>>)
    /\ InSeq(dir_name, Parts(path_str))

detect_type_from_path(path_str, cfg) ==
    IF Lower(SplitExt(path_str)) \in CODE_EXTENSIONS THEN "code"
    ELSE LET specs_root == get_specs_root(cfg)
             target_dirs == get_target_dirs(cfg)
             hits == {i \in 1..Len(target_dirs) :
                         DirRuleMatches(path_str, specs_root, target_dirs[i].dir)}
         IN IF cfg.present /\ hits # {}
            THEN target_dirs[CHOOSE i \in hits : \A j \in hits : i <= j].type
            ELSE IF cfg.present /\ InSeq(<<"plan">>, Parts(path_str)) THEN "plan"
            ELSE _detect_generic_type(path_str)

\* variant of detect_type_from_dir that classifies by the last .md path
detect_type_from_dir_LastMd(files, dir_path, cfg) ==
    LET dir_p == RootJoin(dir_path)
        code_files == UNION {Glob(files, dir_p, ext) : ext \in CODE_EXTENSIONS}
        md_files == Sorted(Glob(files, dir_p, ".md"))
        RelSorted(S) == Sorted({RelativeToRoot(f) : f \in S})
    IN IF ~IsDir(files, dir_p) THEN [type |-> None, files |-> <<>>]
       ELSE IF code_files # {} /\ md_files = <<>>
       THEN [type |-> "code", files |-> RelSorted(code_files)]
       ELSE IF md_files # <<>> /\ code_files = {}
       THEN [type |-> detect_type_from_path(RelativeToRoot(md_files[Len(md_files)]), cfg),
             files |-> RelSorted({md_files[i] : i \in 1..Len(md_files)})]
       ELSE [type |-> None, files |-> <<>>]

\* variant of detect_type_from_dir that returns the files of a mixed directory
detect_type_from_dir_MixedFiles(files, dir_path, cfg) ==
    LET dir_p == RootJoin(dir_path)
        code_files == UNION {Glob(files, dir_p, ext) : ext \in CODE_EXTENSIONS}
        md_files == Sorted(Glob(files, dir_p, ".md"))
        RelSorted(S) == Sorted({RelativeToRoot(f) : f \in S})
    IN IF ~IsDir(files, dir_p) THEN [type |-> None, files |-> <<>>]
       ELSE IF code_files # {} /\ md_files = <<>>
       THEN [type |-> "code", files |-> RelSorted(code_files)]
       ELSE IF md_files # <<>> /\ code_files = {}
       THEN [type |-> detect_type_from_path(RelativeToRoot(md_files[1]), cfg),
             files |-> RelSorted({md_files[i] : i \in 1..Len(md_files)})]
       ELSE [type |-> None,
             files |-> RelSorted(code_files \cup {md_files[i] : i \in 1..Len(md_files)})]

\* ---- DirectoryScanner ---------------------------------------------------
detect_type_from_dir(files, dir_path, cfg) ==
    LET dir_p == RootJoin(dir_path)
        code_files == UNION {Glob(files, dir_p, ext) : ext \in CODE_EXTENSIONS}
        md_files == Sorted(Glob(files, dir_p, ".md"))
        RelSorted(S) == Sorted({RelativeToRoot(f) : f \in S})
    IN IF ~IsDir(files, dir_p) THEN [type |-> None, files |-> <<>>]
       ELSE IF code_files # {} /\ md_files = <<>>
       THEN [type |-> "code", files |-> RelSorted(code_files)]
       ELSE IF md_files # <<>> /\ code_files = {}
       THEN [type |-> detect_type_from_path(RelativeToRoot(md_files[1]), cfg),
             files |-> RelSorted({md_files[i] : i \in 1..Len(md_files)})]
       ELSE [type |-> None, files |-> <<>>]

\* ---- TargetResolver ------------------------------------------------------
\* the text of the messages is written in English here; an f-string is the
\* concatenation of its literal runs and the interpolated strings
Question(key, message, options) ==
    [key |-> key, message |-> message, options |-> options]

MissingPrefix == "the following files are not found: "
CommaSpace == ", "

_resolve_single_target(target, cfg, files, specs_root, target_dirs, features, res) ==
    IF IsFile(files, RootJoin(target))
    THEN LET t == detect_type_from_path(target, cfg)
         IN [res EXCEPT
               !.type = t,
               !.target_files = <<target>>,
               !.questions =
                   IF t = None
                   THEN @ \o <<Question("type",
                                 <<"'">> \o target \o <<"': cannot determine the review type; choose one">>,
                                 TYPE_OPTIONS)>>
                   ELSE @]
    ELSE IF IsDir(files, RootJoin(target))
    THEN LET d == detect_type_from_dir(files, target, cfg)
         IN [res EXCEPT
               !.type = d.type,
               !.target_files = d.files,
               !.questions =
                   IF d.type = None /\ d.files # <<>>
                   THEN @ \o <<Question("type",
                                 <<"directory '">> \o target \o <<"': choose the review type">>,
                                 TYPE_OPTIONS)>>
                   ELSE IF d.files = <<>>
                   THEN @ \o <<Question("target",
                                 <<"directory '">> \o target \o <<"': no files to review found; give a path">>,
                                 <<>>)>>
                   ELSE @]
    ELSE IF InSeq(target, features)
    THEN LET available_types == find_feature_subdirs(files, specs_root, target, target_dirs)
         IN IF Len(available_types) = 1
            THEN [res EXCEPT
                    !.type = available_types[1],
                    !.target_files = find_target_files(files, specs_root, target,
                                                       available_types[1], target_dirs)]
            ELSE IF Len(available_types) > 1
            THEN [res EXCEPT
                    !.questions = @ \o <<Question("type",
                                 <<"feature '">> \o target \o <<"': which type to review?">>,
                                 available_types)>>]
            ELSE [res EXCEPT
                    !.questions = @ \o <<Question("target",
                                 <<"feature '">> \o target \o <<"': no documents to review found; give a path">>,
                                 <<>>)>>]
    ELSE [res EXCEPT
            !.questions = @ \o <<Question("target",
                                 <<"'">> \o target \o <<"' is not found; give a file or a directory">>,
                                 <<>>)>>]

\* variant of _resolve_multiple_targets that keeps the missing targets in
\* target_files
_resolve_multiple_targets_KeepsMissing(tgts, cfg, files, res) ==
    LET valid_files == SelectSeq(tgts, LAMBDA t : IsFile(files, RootJoin(t)))
        missing == SelectSeq(tgts, LAMBDA t : ~IsFile(files, RootJoin(t)))
    IN IF missing # <<>>
       THEN [res EXCEPT
               !.questions = @ \o <<Question("target",
                                 <<MissingPrefix>> \o Join(missing, <<CommaSpace>>),
                                 <<>>)>>,
               !.target_files = tgts]
       ELSE LET t == detect_type_from_path(valid_files[1], cfg)
            IN [res EXCEPT
                  !.target_files = valid_files,
                  !.type = t,
                  !.questions =
                      IF t = None
                      THEN @ \o <<Question("type",
                                    <<"cannot determine the review type; choose one">>,
                                    TYPE_OPTIONS)>>
                      ELSE @]

_resolve_multiple_targets(tgts, cfg, files, res) ==
    LET valid_files == SelectSeq(tgts, LAMBDA t : IsFile(files, RootJoin(t)))
        missing == SelectSeq(tgts, LAMBDA t : ~IsFile(files, RootJoin(t)))
    IN IF missing # <<>>
       THEN [res EXCEPT
               !.questions = @ \o <<Question("target",
                                 <<MissingPrefix>> \o Join(missing, <<CommaSpace>>),
                                 <<>>)>>,
               !.target_files = valid_files]
       ELSE LET t == detect_type_from_path(valid_files[1], cfg)
            IN [res EXCEPT
                  !.target_files = valid_files,
                  !.type = t,
                  !.questions =
                      IF t = None
                      THEN @ \o <<Question("type",
                                    <<"cannot determine the review type; choose one">>,
                                    TYPE_OPTIONS)>>
                      ELSE @]

\* ---- main ---------------------------------------------------------------
has_doc_advisor(cfg) == cfg.present

MainTargetDirs(cfg) == IF has_doc_advisor(cfg) THEN get_target_dirs(cfg) ELSE <<>>

MainFeatures(files, cfg) ==
    IF has_doc_advisor(cfg) THEN detect_features(files, get_specs_root(cfg)) ELSE <<>>

InitialResult(files, cfg) ==
    [status |-> "resolved",
     has_doc_advisor |-> has_doc_advisor(cfg),
     type |-> None,
     target_files |-> <<>>,
     reference_docs |-> <<>>,
     features |-> MainFeatures(files, cfg),
     questions |-> <<>>]

\* variant of NoTargetQuestion that asks for a feature even when there is none
NoTargetQuestion_AlwaysFeature(features) ==
    Question("feature", <<"choose the feature to review (give a path for a code review)">>, features)

NoTargetQuestion(features) ==
    IF features # <<>>
    THEN Question("feature", <<"choose the feature to review (give a path for a code review)">>, features)
    ELSE Question("target", <<"give the file or the directory to review">>, <<>>)

\* variant of Finish that leaves the status as initialised
Finish_StatusNotDerived(res) ==
    [res EXCEPT
       !.reference_docs = IF res.type # None THEN find_reference_docs(res.type) ELSE @]

\* lines 412-418: reference documents, then the status
Finish(res) ==
    [res EXCEPT
       !.reference_docs = IF res.type # None THEN find_reference_docs(res.type) ELSE @,
       !.status = IF res.questions # <<>> THEN "needs_input" ELSE @]

\* ---- the inputs ----------------------------------------------------------
\* files a snapshot may hold, relative to the project root
Candidates ==
    { << <<"specs">>, <<"login">>, <<"design">>, <<"foo", ".md">> >>,
      << <<"specs">>, <<"login">>, <<"design">>, <<".wip", ".md">> >>,
      << <<"specs">>, <<"login">>, <<"requirements">>, <<"foo", ".md">> >>,
      << <<"specs">>, <<"login">>, <<"plan">>, <<"foo", ".md">> >>,
      << <<"specs">>, <<"login">>, <<"memo", ".md">> >>,
      << <<"specs">>, <<"search">>, <<"memo", ".md">> >>,
      << <<"design">>, <<"foo", ".md">> >>,
      << <<"design">>, <<"app", ".py">> >>,
      << <<"design">>, <<"memo", ".txt">> >>,
      << <<"README", ".md">> >> }

Snapshots ==
    {{ProjectRoot \o c : c \in S} : S \in {T \in SUBSET Candidates : Cardinality(T) <= MaxFiles}}

\* what load_doc_advisor_config may return: None, the fallback parse of a
\* config.yaml that sets nothing, and one that sets root_dir and design
Configs ==
    { NoConfig,
      [present |-> TRUE, has_specs |-> TRUE, root_dir |-> <<"specs">>, target_dirs |-> <<>>],
      [present |-> TRUE, has_specs |-> TRUE, root_dir |-> <<"specs", "/">>,
       target_dirs |-> <<[type |-> "design", dir |-> <<"design", "-notes">>]>>] }

TargetStrings ==
    { <<"README", ".md">>,
      <<"/", "w", "/", "README", ".md">>,
      <<"design", "/", "foo", ".md">>,
      <<"design", "/", "app", ".py">>,
      <<"design">>,
      <<"specs">>,
      <<"login">> }

RECURSIVE SeqsUpTo(_, _)
SeqsUpTo(S, n) ==
    IF n = 0 THEN {<<>>}
    ELSE LET shorter == SeqsUpTo(S, n - 1)
         IN shorter \cup {Append(q, x) : q \in {r \in shorter : Len(r) = n - 1}, x \in S}

TargetLists == SeqsUpTo(TargetStrings, MaxTargets)

\* ---- one run of main ----------------------------------------------------
Init ==
    /\ pc = "start"
    /\ fs \in Snapshots
    /\ config \in Configs
    /\ targets \in TargetLists
    /\ result = NoResult
    /\ fnPath = <<>>
    /\ fnDir = <<>>
    /\ fnOut = NoCall

\* lines 388-390, 412-420
MainMultiple ==
    /\ pc = "start"
    /\ Len(targets) > 1
    /\ result' = Finish(_resolve_multiple_targets(targets, config, fs,
                                                  InitialResult(fs, config)))
    /\ pc' = "done"
    /\ UNCHANGED <<fs, config, targets, fnPath, fnDir, fnOut>>

\* lines 392-395, 412-420
MainSingle ==
    /\ pc = "start"
    /\ Len(targets) = 1
    /\ result' = Finish(_resolve_single_target(targets[1], config, fs,
                            get_specs_root(config), MainTargetDirs(config),
                            MainFeatures(fs, config), InitialResult(fs, config)))
    /\ pc' = "done"
    /\ UNCHANGED <<fs, config, targets, fnPath, fnDir, fnOut>>

\* lines 397-410, 412-420
MainNoTarget ==
    /\ pc = "start"
    /\ Len(targets) = 0
    /\ result' = Finish([InitialResult(fs, config) EXCEPT
                            !.questions = @ \o <<NoTargetQuestion(MainFeatures(fs, config))>>])
    /\ pc' = "done"
    /\ UNCHANGED <<fs, config, targets, fnPath, fnDir, fnOut>>

Next == MainMultiple \/ MainSingle \/ MainNoTarget

Spec == Init /\ [][Next]_vars

\* ---- direct calls of detect_type_from_path -------------------------------
DirNames ==
    { <<"design">>, <<"design", "-notes">>, <<"requirements">>, <<"plan">>,
      <<"specs">>, <<"login">>, <<"rules">>, <<".claude">>, <<"skills">> }

FileNames ==
    { <<"foo", ".md">>, <<"README", ".md">>, <<"app", ".py">>, <<"app", ".PY">> }

\* up to MaxDirs directory names, then a file name
SegLists == {Append(d, f) : d \in SeqsUpTo(DirNames, MaxDirs), f \in FileNames}

PathStrings == {RelStr(g) : g \in SegLists} \cup {AbsStr(g) : g \in SegLists}

InitPath ==
    /\ pc = "start"
    /\ fs = {}
    /\ config \in Configs
    /\ targets = <<>>
    /\ result = NoResult
    /\ fnPath \in PathStrings
    /\ fnDir = <<>>
    /\ fnOut = NoCall

CallDetectTypeFromPath ==
    /\ pc = "start"
    /\ fnOut' = [called |-> TRUE, value |-> detect_type_from_path(fnPath, config)]
    /\ pc' = "done"
    /\ UNCHANGED <<fs, config, targets, result, fnPath, fnDir>>

NextPath == CallDetectTypeFromPath

SpecPath == InitPath /\ [][NextPath]_vars

\* ---- direct calls of detect_type_from_dir --------------------------------
DirCandidates ==
    { << <<"design">>, <<"foo", ".md">> >>,
      << <<"design">>, <<"app", ".py">> >>,
      << <<"design">>, <<"app", ".PY">> >>,
      << <<"design">>, <<".wip", ".md">> >>,
      << <<"design">>, <<".wip">>, <<"foo", ".md">> >>,
      << <<"design">>, <<"memo", ".txt">> >>,
      << <<"specs">>, <<"login">>, <<"design">>, <<"foo", ".md">> >>,
      << <<"specs">>, <<"login">>, <<"memo", ".md">> >>,
      << <<"README", ".md">> >> }

DirSnapshots ==
    {{ProjectRoot \o c : c \in S} : S \in {T \in SUBSET DirCandidates : Cardinality(T) <= MaxFiles}}

DirStrings ==
    { <<"design">>,
      <<"/", "w", "/", "design">>,
      <<"specs">>,
      <<"specs", "/", "login">>,
      <<"login">>,
      <<"README", ".md">> }

InitDir ==
    /\ pc = "start"
    /\ fs \in DirSnapshots
    /\ config \in Configs
    /\ targets = <<>>
    /\ result = NoResult
    /\ fnPath = <<>>
    /\ fnDir \in DirStrings
    /\ fnOut = NoCall

CallDetectTypeFromDir ==
    /\ pc = "start"
    /\ fnOut' = [called |-> TRUE, value |-> detect_type_from_dir(fs, fnDir, config)]
    /\ pc' = "done"
    /\ UNCHANGED <<fs, config, targets, result, fnPath, fnDir>>

NextDir == CallDetectTypeFromDir

SpecDir == InitDir /\ [][NextDir]_vars

\* ---- vocabulary of the properties ---------------------------------------
Done == pc = "done"

Range(seq) == {seq[i] : i \in 1..Len(seq)}

\* the file a target string names, below the project root or absolute
ExistsAsFile(t) == RootJoin(t) \in fs
ExistsAsDir(t) == RootJoin(t) \in Directories(fs)

\* the path of a snapshot file relative to the project root, as str
Rel(f) == RelStr(SubSeq(f, Len(ProjectRoot) + 1, Len(f)))

\* the snapshot files below dir whose name ends in one of exts, none of the
\* names on the way from dir being hidden: what the recursive glob patterns see
VisibleFiles(dir, exts) ==
    {f \in fs : /\ IsUnder(f, dir)
                /\ f[Len(f)][Len(f[Len(f)])] \in exts
                /\ \A i \in (Len(dir) + 1)..Len(f) : f[i][1] \notin DotTokens}

\* seq lists the strings of S once each, in increasing order
SortedListOf(seq, S) ==
    /\ Range(seq) = S
    /\ Len(seq) = Cardinality(S)
    /\ \A i \in 1..(Len(seq) - 1) : StrLess(seq[i], seq[i + 1])

\* the name of a path has an extension that is a code extension in lower case
CodeExtensionPath(s) ==
    LET n == Name(s) IN Len(n) >= 2 /\ Lower(n[Len(n)]) \in CODE_EXTENSIONS

\* ---- C1 -----------------------------------------------------------------
\* C1: the emitted result has status "needs_input" iff its questions list is
\* non-empty, and status "resolved" otherwise
C1_StatusIffQuestions ==
    Done =>
        /\ result.status \in {"needs_input", "resolved"}
        /\ result.status = "needs_input" <=> result.questions # <<>>

C1_Witness ==
    /\ Done
    /\ Len(targets) = 2
    /\ result.status = "needs_input"
    /\ result.target_files # <<>>

\* ---- C2 -----------------------------------------------------------------
\* C2: every path in target_files is relative to the project root and names
\* a file that exists, also for a target given as an absolute path
C2_TargetFilesRelativeAndExisting ==
    Done =>
        \A i \in 1..Len(result.target_files) :
            /\ ~IsAbsolute(result.target_files[i])
            /\ (ProjectRoot \o Segments(result.target_files[i])) \in fs

\* ---- C3 -----------------------------------------------------------------
\* the configured types whose directory name is a segment of the path
C3_SegmentTypes(path_str, cfg) ==
    {e.type : e \in {x \in Range(get_target_dirs(cfg)) : x.dir \in Range(Segments(path_str))}}

\* C3: with a configuration, and unless the extension rule answered code, a
\* path with a configured directory name among its segments is classified as
\* such a type, and a configured type is returned only for such a path
C3_ConfiguredDirAsSegmentAnywhere ==
    (Done /\ config.present /\ ~CodeExtensionPath(fnPath)) =>
        LET hit == C3_SegmentTypes(fnPath, config)
        IN /\ hit # {} => fnOut.value \in hit
           /\ fnOut.value \in DictKeys(get_target_dirs(config)) => fnOut.value \in hit

\* ---- C4 -----------------------------------------------------------------
\* C4: a path whose extension is a code extension, compared without case, is
\* classified code whatever the configuration, its segments and the generic
\* patterns
C4_CodeExtensionOverrides ==
    (Done /\ CodeExtensionPath(fnPath)) => fnOut.value = "code"

C4_Witness ==
    /\ Done
    /\ config.present
    /\ fnPath = <<"design", "/", "app", ".py">>
    /\ fnOut.value = "code"

\* ---- C5 -----------------------------------------------------------------
\* the directory of a feature, and whether a subdirectory of it holds a .md
\* file at any depth
C5_FeatureDir(feature) == ProjectRoot \o Segments(get_specs_root(config)) \o <<feature>>

C5_HasMd(feature, dir_name) ==
    \E f \in fs : /\ IsUnder(f, C5_FeatureDir(feature) \o <<dir_name>>)
                  /\ f[Len(f)][Len(f[Len(f)])] = ".md"

\* the available types of a feature: configuration order, plan last
C5_Available(feature) ==
    LET conf == SelectSeq(get_target_dirs(config), LAMBDA e : C5_HasMd(feature, e.dir))
    IN [i \in 1..Len(conf) |-> conf[i].type]
       \o (IF C5_HasMd(feature, <<"plan">>) THEN <<"plan">> ELSE <<>>)

C5_DirNameOf(review_type) ==
    IF review_type = "plan" THEN <<"plan">>
    ELSE DictGet(get_target_dirs(config), review_type)

\* the single target is a feature name, and neither a file nor a directory
C5_FeatureTarget ==
    /\ Done
    /\ Len(targets) = 1
    /\ ~ExistsAsFile(targets[1])
    /\ ~ExistsAsDir(targets[1])
    /\ InSeq(targets[1], result.features)

RECURSIVE SplitBy(_, _)
SplitBy(s, sep) ==
    IF ~InSeq(sep, s) THEN <<s>>
    ELSE LET i == CHOOSE k \in 1..Len(s) : s[k] = sep /\ \A j \in 1..(k - 1) : s[j] # sep
         IN <<SubSeq(s, 1, i - 1)>> \o SplitBy(SubSeq(s, i + 1, Len(s)), sep)

\* the names a "not found" message lists after its fixed text
C6_NamesIn(message) == SplitBy(Tail(message), CommaSpace)

C6_MultipleWithMissing ==
    /\ Done
    /\ Len(targets) >= 2
    /\ \E i \in 1..Len(targets) : ~ExistsAsFile(targets[i])

C7_CodeFiles == VisibleFiles(RootJoin(fnDir), CODE_EXTENSIONS)
C7_MdFiles == VisibleFiles(RootJoin(fnDir), {".md"})
C7_FirstMd ==
    CHOOSE m \in {Rel(f) : f \in C7_MdFiles} :
        \A o \in {Rel(f) : f \in C7_MdFiles} \ {m} : StrLess(m, o)
C7_Empty == [type |-> None, files |-> <<>>]

\* C7: detect_type_from_dir returns (code, sorted code paths) for code files
\* without .md files, (type of the first .md path, sorted .md paths) for .md
\* files without code files, (absent, empty) for both or neither, and
\* (absent, empty) for what is no directory
C7_ScanOutcomes ==
    Done =>
        IF RootJoin(fnDir) \notin Directories(fs)
        THEN fnOut.value = C7_Empty
        ELSE /\ (C7_CodeFiles # {} /\ C7_MdFiles = {}) =>
                  /\ fnOut.value.type = "code"
                  /\ SortedListOf(fnOut.value.files, {Rel(f) : f \in C7_CodeFiles})
             /\ (C7_MdFiles # {} /\ C7_CodeFiles = {}) =>
                  /\ fnOut.value.type = detect_type_from_path(C7_FirstMd, config)
                  /\ SortedListOf(fnOut.value.files, {Rel(f) : f \in C7_MdFiles})
             /\ ((C7_CodeFiles # {}) <=> (C7_MdFiles # {})) => fnOut.value = C7_Empty

C7_Witness ==
    /\ Done
    /\ RootJoin(fnDir) \in Directories(fs)
    /\ C7_CodeFiles = {}
    /\ Cardinality(C7_MdFiles) = 2
    /\ fnOut.value.type = "design"
    /\ Len(fnOut.value.files) = 2

\* ---- C8 -----------------------------------------------------------------
\* the single target is an existing directory (and no file)
C8_DirTarget ==
    /\ Done
    /\ Len(targets) = 1
    /\ ~ExistsAsFile(targets[1])
    /\ ExistsAsDir(targets[1])

C8_CodeFiles == VisibleFiles(RootJoin(targets[1]), CODE_EXTENSIONS)
C8_MdFiles == VisibleFiles(RootJoin(targets[1]), {".md"})
C8_Mixed == C8_CodeFiles # {} /\ C8_MdFiles # {}
C8_FirstMd ==
    CHOOSE m \in {Rel(f) : f \in C8_MdFiles} :
        \A o \in {Rel(f) : f \in C8_MdFiles} \ {m} : StrLess(m, o)

C8_TypeQuestion ==
    /\ Len(result.questions) = 1
    /\ result.questions[1].key = "type"
    /\ result.questions[1].options = TYPE_OPTIONS

C8_TargetQuestion ==
    /\ Len(result.questions) = 1
    /\ result.questions[1].key = "target"
    /\ result.questions[1].options = <<>>

C9_FeatureNames ==
    LET root == ProjectRoot \o Segments(get_specs_root(config))
    IN {f[Len(root) + 1] : f \in {g \in fs :
            /\ IsUnder(g, root)
            /\ Len(g) > Len(root) + 1
            /\ g[Len(root) + 1][1] \notin DotTokens}}

\* C9: a target question has no options; a type question has the five fixed
\* options or the two or more available types of the feature the target
\* names; a feature question has the non-empty sorted list of all features
\* and is asked only for no target; so options is empty exactly for target
\* questions
C9_QuestionOptions ==
    Done =>
        \A i \in 1..Len(result.questions) :
            LET q == result.questions[i]
            IN /\ q.key \in {"target", "type", "feature"}
               /\ q.key = "target" => q.options = <<>>
               /\ q.key = "type" =>
                    \/ q.options = TYPE_OPTIONS
                    \/ /\ C5_FeatureTarget
                       /\ q.options = C5_Available(targets[1])
                       /\ Len(q.options) >= 2
               /\ q.key = "feature" =>
                    /\ targets = <<>>
                    /\ config.present
                    /\ q.options # <<>>
                    /\ q.options = result.features
                    /\ SortedListOf(q.options, C9_FeatureNames)
               /\ q.options = <<>> <=> q.key = "target"

C9_Witness ==
    /\ Done
    /\ Len(result.questions) = 1
    /\ result.questions[1].key = "feature"
    /\ result.questions[1].options = << <<"login">>, <<"search">> >>

\* ---- C10 ----------------------------------------------------------------
\* C10: at most one question; status "resolved" iff type is present; and a
\* resolved result has target files
C10_ResolvedHasTypeAndFiles ==
    Done =>
        /\ Len(result.questions) <= 1
        /\ result.status = "resolved" <=> result.type # None
        /\ result.status = "resolved" => result.target_files # <<>>

====
